---- MODULE Spec2Model ----
(***************************************************************************)
(* Zulmapp backend (src/server.js): one meal order per person per ordering *)
(* cycle, a weekly access window for writes, and chronological dish        *)
(* numbering.  Time is counted in minutes.  Strings that the code trims    *)
(* are sequences of one-character strings.                                 *)
(***************************************************************************)
EXTENDS Integers, Sequences, FiniteSets, TLC

VARIABLES
    now,        \* the wall clock: minutes since 2026-12-23T00:00Z (new Date())
    hostOff,    \* UTC offset of the host process, in minutes (local = UTC + hostOff)
    pedidos,    \* the 'pedidos' table: a set of rows
    nextId,     \* the table's id sequence
    req,        \* the requests in flight: slot -> request record
    answer,     \* the last answer given
    started,    \* the number of requests received so far
    probe,      \* a pure function under examination: its inputs and its result
    lastWrite   \* history: the latest write answered with success, per user and cycle

vars == <<now, hostOff, pedidos, nextId, req, answer, started, probe, lastWrite>>

-----------------------------------------------------------------------------
(* Bounds of the model *)

MaxDay == 1         \* the clock runs over the access windows opening on days 1..MaxDay
MaxReq == 3         \* requests handled one after the other in one behaviour
MaxConc == 2        \* requests handled concurrently in one behaviour
MaxSlots == 2       \* requests in flight at the same time
MaxFail == 2        \* requests handled one after the other by a store that can fail
MaxRace == 3        \* requests in a behaviour whose later ones are handled concurrently
MaxProbeDay == 70   \* getCycleDate is examined on days 1..MaxProbeDay
MaxWindowDay == 7   \* checkTimeRestriction is examined on days 1..MaxWindowDay
MaxRecs == 3        \* calculateDishNumbers is examined on up to MaxRecs records

-----------------------------------------------------------------------------
(* Calendar: the model's day 0 is Wednesday 2026-12-23 (Date.getDay():     *)
(* 0 = Sunday ... 3 = Wednesday), so that day 1 is a Thursday, day 3 a     *)
(* Saturday, day 8 the last day of a year and day 39 the last of a month   *)

Epoch == [ymd |-> <<2026, 12, 23>>, weekday |-> 3]
MinPerDay == 24 * 60

IsLeap(y) == (y % 4 = 0 /\ y % 100 # 0) \/ y % 400 = 0

DaysInMonth(y, m) ==
    IF m = 2 THEN (IF IsLeap(y) THEN 29 ELSE 28)
    ELSE IF m \in {4, 6, 9, 11} THEN 30 ELSE 31

RECURSIVE Normalise(_, _, _)
\* the calendar date <<year, month, day of month>> that day n >= 1 of month m
\* of year y is, an n beyond the month's end running over into the months
\* that follow
Normalise(y, m, n) ==
    IF n <= DaysInMonth(y, m) THEN <<y, m, n>>
    ELSE IF m < 12 THEN Normalise(y, m + 1, n - DaysInMonth(y, m))
    ELSE Normalise(y + 1, 1, n - DaysInMonth(y, m))

\* the calendar date of the model's day ord
YMD(ord) == Normalise(Epoch.ymd[1], Epoch.ymd[2], Epoch.ymd[3] + ord)

-----------------------------------------------------------------------------
(* JavaScript Date: a Date is its time value, minutes since the epoch in   *)
(* UTC; its local fields are those of the value shifted by the host's      *)
(* offset                                                                  *)

BA_OFFSET == -180   \* America/Argentina/Buenos_Aires is UTC-3, no DST

LocalMinutes(d, off) == d + off
getHours(d, off) == (LocalMinutes(d, off) \div 60) % 24
getMinutes(d, off) == LocalMinutes(d, off) % 60
LocalOrd(d, off) == LocalMinutes(d, off) \div MinPerDay
getDay(d, off) == (Epoch.weekday + LocalOrd(d, off)) % 7
getDate(d, off) == YMD(LocalOrd(d, off))[3]

\* Date.prototype.setDate(n): the local day of month becomes n, an n beyond
\* the month's end running over into the following month
setDate(d, off, n) ==
    LET ord == LocalOrd(d, off)
        first == ord - (YMD(ord)[3] - 1)
    IN  (first + (n - 1)) * MinPerDay + (LocalMinutes(d, off) % MinPerDay) - off

\* toISOString().split('T')[0]: the calendar date of the time value in UTC
ISODate(d) == YMD(d \div MinPerDay)

\* toISOString(): ordered as the time values are
toISOString(d) == d

\* getArgTime: the Buenos Aires wall-clock reading of the clock, printed and
\* parsed back as a time of the host's zone
getArgTime(t, off) == (t + BA_OFFSET) - off

getCycleDate(argTime, off) ==
    IF getHours(argTime, off) >= 14
    THEN ISODate(setDate(argTime, off, getDate(argTime, off) + 1))
    ELSE ISODate(argTime)

-----------------------------------------------------------------------------
(* The access window *)

ADMIN_EMAILS ==
    {"juliandanielpappalettera@gmail.com", "leandro.binetti@gmail.com",
     "alanpablomarino@gmail.com"}

\* a variant that leaves the weekday gate out
checkTimeRestriction_NoWeekdayGate(userEmail, t, off) ==
    IF userEmail \in ADMIN_EMAILS THEN [allowed |-> TRUE, isAdmin |-> TRUE]
    ELSE LET argTime == getArgTime(t, off)
             hour == getHours(argTime, off)
             minute == getMinutes(argTime, off)
         IN  [allowed |-> hour >= 14 \/ hour < 10 \/ (hour = 10 /\ minute <= 15),
              isAdmin |-> FALSE]

\* a variant that holds administrators to the window too
checkTimeRestriction_AdminsGated(userEmail, t, off) ==
    LET argTime == getArgTime(t, off)
        dayOfWeek == getDay(argTime, off)
        hour == getHours(argTime, off)
        minute == getMinutes(argTime, off)
    IN  [allowed |-> (dayOfWeek >= 1 /\ dayOfWeek <= 5)
                        /\ (hour >= 14 \/ hour < 10 \/ (hour = 10 /\ minute <= 15)),
         isAdmin |-> userEmail \in ADMIN_EMAILS]

\* checkTimeRestriction as the request handlers of lines 163-393 use it; t is
\* the clock reading its getArgTime() takes
checkTimeRestriction(userEmail, t, off) ==
    IF userEmail \in ADMIN_EMAILS THEN [allowed |-> TRUE, isAdmin |-> TRUE]
    ELSE LET argTime == getArgTime(t, off)
             dayOfWeek == getDay(argTime, off)
             hour == getHours(argTime, off)
             minute == getMinutes(argTime, off)
             isWeekday == dayOfWeek >= 1 /\ dayOfWeek <= 5
             isInTimeRange == hour >= 14 \/ hour < 10 \/ (hour = 10 /\ minute <= 15)
         IN  [allowed |-> isWeekday /\ isInTimeRange, isAdmin |-> FALSE]

\* the file's second definition of checkTimeRestriction (lines 464-485)
checkTimeRestriction2(userEmail, t, off) ==
    IF userEmail = "juliandanielpappalettera@gmail.com"
    THEN [allowed |-> TRUE, isAdmin |-> TRUE]
    ELSE LET argTime == getArgTime(t, off)
             dayOfWeek == getDay(argTime, off)
             hour == getHours(argTime, off)
             minute == getMinutes(argTime, off)
             isWeekday == dayOfWeek >= 1 /\ dayOfWeek <= 5
             isInTimeRange == (hour = 7 \/ hour = 8 \/ hour = 9)
                                 \/ (hour = 10 /\ minute <= 15)
         IN  [allowed |-> isWeekday /\ isInTimeRange, isAdmin |-> FALSE]

-----------------------------------------------------------------------------
(* Strings and dish numbering *)

Blank == " "

RECURSIVE trimStart(_)
trimStart(s) == IF s # <<>> /\ Head(s) = Blank THEN trimStart(Tail(s)) ELSE s

RECURSIVE trimEnd(_)
trimEnd(s) ==
    IF s # <<>> /\ s[Len(s)] = Blank THEN trimEnd(SubSeq(s, 1, Len(s) - 1)) ELSE s

\* String.prototype.trim()
trim(s) == trimEnd(trimStart(s))

\* `plato && plato.trim() !== ''`
NonEmptyDish(plato) == plato # <<>> /\ trim(plato) # <<>>

\* the entries one pedido adds to allDishes (lines 129-137)
DishesOf(pedido) ==
    LET slots == SelectSeq(<<pedido.plato1, pedido.plato2, pedido.plato3>>, NonEmptyDish)
    IN  [i \in 1..Len(slots) |->
            [plato |-> trim(slots[i]), email |-> pedido.email,
             timestamp |-> pedido.timestamp]]

RECURSIVE allDishes(_)
\* lines 126-138: every non-empty dish of every pedido, in the pedidos' order
allDishes(rows) ==
    IF rows = <<>> THEN <<>> ELSE DishesOf(Head(rows)) \o allDishes(Tail(rows))

\* a variant that returns the 0-based indexes
dishNumbers_ZeroBased(rows, userEmail) ==
    LET all == allDishes(rows)
    IN  SelectSeq([i \in 1..Len(all) |-> i - 1], LAMBDA n : all[n + 1].email = userEmail)

\* lines 141-148: the 1-based positions of the user's dishes in allDishes
dishNumbers(rows, userEmail) ==
    LET all == allDishes(rows)
    IN  SelectSeq([i \in 1..Len(all) |-> i], LAMBDA n : all[n].email = userEmail)

-----------------------------------------------------------------------------
(* The requests' inputs *)

Users == {"juliandanielpappalettera@gmail.com", "ana@x.com"}

\* the identities of the records of a cycle examined on its own
ProbeUsers ==
    <<"ana@x.com", "beto@x.com", "juliandanielpappalettera@gmail.com", "caro@x.com",
      "dani@x.com">>

\* userEmail.split('@')[0]
usuario(userEmail) ==
    CASE userEmail = "juliandanielpappalettera@gmail.com" -> "juliandanielpappalettera"
      [] userEmail = "leandro.binetti@gmail.com" -> "leandro.binetti"
      [] userEmail = "alanpablomarino@gmail.com" -> "alanpablomarino"
      [] userEmail = "ana@x.com" -> "ana"
      [] userEmail = "beto@x.com" -> "beto"
      [] userEmail = "caro@x.com" -> "caro"
      [] userEmail = "dani@x.com" -> "dani"

Str(c) == <<c>>
NoStr == <<>>

Body(n, p1, p2, p3) == [nombre |-> n, plato1 |-> p1, plato2 |-> p2, plato3 |-> p3]

\* request bodies: T and E are two dishes of the menu
Bodies ==
    { Body(Str("A"), Str("T"), NoStr, NoStr),
      Body(Str("A"), Str("T"), NoStr, Str("E")),
      Body(NoStr, Str("T"), NoStr, NoStr),
      Body(Str(Blank), Str("T"), NoStr, NoStr),
      Body(Str("A"), NoStr, Str("E"), NoStr),
      Body(Str("A"), Str(Blank), NoStr, NoStr) }

\* the Buenos Aires readings taken around the access window that opens on a
\* day, <<days later, hour, minute>>: the cutover, an evening hour, the last
\* minute of the window on the next morning and the first minute after it
WindowTimes == {<<0, 14, 0>>, <<0, 21, 0>>, <<1, 10, 15>>, <<1, 10, 16>>}

\* the clock value at which Buenos Aires reads hour:minute on day
InstantOf(day, hour, minute) == day * MinPerDay + hour * 60 + minute - BA_OFFSET

\* the clock's instants: the windows that open on days 1..MaxDay (day 1 is a
\* Thursday), then an afternoon two days later (with MaxDay = 1, a Saturday)
Instants ==
    {InstantOf(d + w[1], w[2], w[3]) : d \in 1..MaxDay, w \in WindowTimes}
        \cup {InstantOf(MaxDay + 2, 15, 0)}

HostOffsets == {0, BA_OFFSET}

Min(S) == CHOOSE x \in S : \A y \in S : x <= y

\* the clock readings a piece of code that runs without waiting can take
\* after a reading of t: the same instant, or the one that follows
Later(t) == {t} \cup (IF \E i \in Instants : i > t THEN {Min({i \in Instants : i > t})} ELSE {})

-----------------------------------------------------------------------------
(* The 'pedidos' table *)

\* .eq('email', e).eq('fecha', f)
Match(e, f) == {r \in pedidos : r.email = e /\ r.fecha = f}

\* a variant that never hands a row back
Single_NoData(rows) == {}

\* .single(): the row when exactly one matches, no data otherwise
Single(rows) == IF Cardinality(rows) = 1 THEN rows ELSE {}

Perms(S) == {f \in [1..Cardinality(S) -> S] : \A x \in S : \E i \in DOMAIN f : f[i] = x}

\* a variant that orders by descending timestamp
Ordered_Descending(f) ==
    LET rows == {r \in pedidos : r.fecha = f}
    IN  {q \in Perms(rows) : \A i, j \in DOMAIN q : i < j => q[i].timestamp >= q[j].timestamp}

\* .eq('fecha', f).order('timestamp', {ascending: true}): the rows of the
\* cycle by ascending timestamp, rows of equal timestamp in any order
Ordered(f) ==
    LET rows == {r \in pedidos : r.fecha = f}
    IN  {q \in Perms(rows) : \A i, j \in DOMAIN q : i < j => q[i].timestamp <= q[j].timestamp}

-----------------------------------------------------------------------------
(* Requests and answers *)

Slots == 1..MaxSlots

NoDate == <<0, 0, 0>>
NoBody == Body(NoStr, NoStr, NoStr, NoStr)

\* storeError: a store call of the request has come back with an error
Idle ==
    [op |-> "idle", pc |-> "idle", n |-> 0, user |-> "", body |-> NoBody,
     checkedAt |-> 0, cycleDate |-> NoDate, existing |-> {}, timestamp |-> 0,
     action |-> "", storeError |-> FALSE, receivedAt |-> 0]

NoStats == [totalOrders |-> 0, menuStats |-> <<>>, peopleList |-> <<>>]

\* a message: its pieces of text (accents left out), and the numbers joined
\* to them
Text(parts) == [text |-> parts, numbers |-> <<>>]
NoMessage == Text(<<>>)

\* error.message of a failed store call
StoreMessage == "store error"

OutOfHours == Text(<<"La app solo esta disponible de lunes a viernes de 14:00 a 10:15">>)

\* lines 236-244
submitMessage(action, numbers) ==
    LET message == IF action = "updated" THEN "Pedido actualizado correctamente"
                   ELSE "Pedido registrado correctamente"
    IN  IF Len(numbers) > 0
        THEN [text |-> <<message, IF Len(numbers) = 1 THEN ". Tu plato es el numero "
                                  ELSE ". Tus platos son los numeros ">>,
              numbers |-> numbers]
        ELSE Text(<<message>>)

NoAnswer ==
    [op |-> "none", n |-> 0, user |-> "", status |-> 0, success |-> FALSE,
     message |-> NoMessage, action |-> "", dishNumbers |-> <<>>,
     body |-> NoBody, checkedAt |-> 0, cycleDate |-> NoDate, timestamp |-> 0,
     numberedFor |-> NoDate, order |-> {}, stats |-> NoStats, storeError |-> FALSE,
     receivedAt |-> 0]

\* the answer to request r with an HTTP status and a message: res.json is
\* status 200 with success: true, every res.status(...) comes with success: false
Answer(r, status, message) ==
    [NoAnswer EXCEPT !.op = r.op, !.n = r.n, !.user = r.user, !.status = status,
                     !.success = (status = 200), !.message = message, !.body = r.body,
                     !.checkedAt = r.checkedAt, !.cycleDate = r.cycleDate,
                     !.timestamp = r.timestamp, !.action = r.action,
                     !.storeError = r.storeError, !.receivedAt = r.receivedAt]

\* a request received in a slot
Received(op, u, b) ==
    [Idle EXCEPT !.op = op, !.n = started + 1, !.user = u, !.body = b, !.receivedAt = now]

\* the history's entry of request r
Write(r) == [user |-> r.user, cycleDate |-> r.cycleDate, op |-> r.op, body |-> r.body]

\* the history once the write of request r has been answered with success
Logged(r) ==
    {w \in lastWrite : ~(w.user = r.user /\ w.cycleDate = r.cycleDate)} \cup {Write(r)}

\* a request is received in the first free slot
CanReceive(s, max) ==
    /\ started < max
    /\ req[s].op = "idle"
    /\ \A z \in Slots : z < s => req[z].op # "idle"

Init ==
    /\ now = Min(Instants)
    /\ hostOff \in HostOffsets
    /\ pedidos = {}
    /\ nextId = 1
    /\ req = [s \in Slots |-> Idle]
    /\ answer = NoAnswer
    /\ started = 0
    /\ probe = [fn |-> "none"]
    /\ lastWrite = {}

\* time passes
Tick ==
    /\ \E i \in Instants : i > now
    /\ now' = Min({i \in Instants : i > now})
    /\ UNCHANGED <<hostOff, pedidos, nextId, req, answer, started, probe, lastWrite>>

-----------------------------------------------------------------------------
(* POST /api/pedidos, lines 163-261 *)

\* lines 165-194: the window check, the validation and the cycle date
SubmitBegin(s, u, b, max) ==
    /\ CanReceive(s, max)
    /\ started' = started + 1
    /\ LET r == [Received("submit", u, b) EXCEPT !.checkedAt = now]
           timeCheck == checkTimeRestriction(u, now, hostOff)
       IN  IF ~timeCheck.allowed
           THEN /\ answer' = Answer(r, 403, OutOfHours)
                /\ UNCHANGED <<now, req>>
           ELSE IF b.nombre = NoStr \/ trim(b.nombre) = NoStr
           THEN /\ answer' = Answer(r, 400, Text(<<"Por favor ingresa tu nombre">>))
                /\ UNCHANGED <<now, req>>
           ELSE IF b.plato1 = NoStr
           THEN /\ answer' = Answer(r, 400,
                        Text(<<"Por favor selecciona al menos el plato principal">>))
                /\ UNCHANGED <<now, req>>
           ELSE \E t \in Later(now) :
                /\ now' = t
                /\ req' = [req EXCEPT ![s] =
                        [r EXCEPT !.pc = "lookup",
                                  !.cycleDate = getCycleDate(getArgTime(t, hostOff), hostOff)]]
                /\ UNCHANGED answer
    /\ UNCHANGED <<hostOff, pedidos, nextId, probe, lastWrite>>

\* lines 197-202: the store answers the lookup of the user's order of the cycle
SubmitLookup(s) ==
    /\ req[s].op = "submit" /\ req[s].pc = "lookup"
    /\ req' = [req EXCEPT ![s].existing = Single(Match(req[s].user, req[s].cycleDate)),
                          ![s].pc = "build"]
    /\ UNCHANGED <<now, hostOff, pedidos, nextId, answer, started, probe, lastWrite>>

\* lines 204-213: orderData, with the timestamp read from the clock
SubmitBuild(s) ==
    /\ req[s].op = "submit" /\ req[s].pc = "build"
    /\ req' = [req EXCEPT ![s].timestamp = toISOString(getArgTime(now, hostOff)),
                          ![s].pc = "write"]
    /\ UNCHANGED <<now, hostOff, pedidos, nextId, answer, started, probe, lastWrite>>

orderData(r) ==
    [nombre |-> trim(r.body.nombre), email |-> r.user, usuario |-> usuario(r.user),
     plato1 |-> r.body.plato1, plato2 |-> r.body.plato2, plato3 |-> r.body.plato3,
     fecha |-> r.cycleDate, timestamp |-> r.timestamp]

Row(id, data) ==
    [id |-> id, nombre |-> data.nombre, email |-> data.email, usuario |-> data.usuario,
     plato1 |-> data.plato1, plato2 |-> data.plato2, plato3 |-> data.plato3,
     fecha |-> data.fecha, timestamp |-> data.timestamp]

\* a variant that leaves the stored timestamp as it was
Update_KeepsTimestamp(id, data) ==
    {IF r.id = id THEN Row(id, [data EXCEPT !.timestamp = r.timestamp]) ELSE r : r \in pedidos}

\* .update(orderData).eq('id', id)
Update(id, data) == {IF r.id = id THEN Row(id, data) ELSE r : r \in pedidos}

\* .insert([orderData])
Insert(data) == pedidos \cup {Row(nextId, data)}

\* lines 215-231: the store executes the update or the insert
SubmitWrite(s) ==
    /\ req[s].op = "submit" /\ req[s].pc = "write"
    /\ IF req[s].existing # {}
       THEN /\ pedidos' = Update((CHOOSE r \in req[s].existing : TRUE).id, orderData(req[s]))
            /\ req' = [req EXCEPT ![s].action = "updated", ![s].pc = "number"]
            /\ UNCHANGED nextId
       ELSE /\ pedidos' = Insert(orderData(req[s]))
            /\ nextId' = nextId + 1
            /\ req' = [req EXCEPT ![s].action = "created", ![s].pc = "number"]
    /\ UNCHANGED <<now, hostOff, answer, started, probe, lastWrite>>

\* lines 236-252: the answer with the numbers counted in the cycle numberedFor
submitAnswer(r, numbers, numberedFor) ==
    [Answer(r, 200, submitMessage(r.action, numbers)) EXCEPT
        !.dishNumbers = numbers, !.numberedFor = numberedFor]

\* lines 112-153 called from line 234, and the answer of lines 246-252
SubmitNumber(s) ==
    /\ req[s].op = "submit" /\ req[s].pc = "number"
    /\ LET cycleDate == getCycleDate(getArgTime(now, hostOff), hostOff)
       IN  \E q \in Ordered(cycleDate) :
               answer' = submitAnswer(req[s], dishNumbers(q, req[s].user), cycleDate)
    /\ lastWrite' = Logged(req[s])
    /\ req' = [req EXCEPT ![s] = Idle]
    /\ UNCHANGED <<now, hostOff, pedidos, nextId, started, probe>>

-----------------------------------------------------------------------------
(* DELETE /api/pedidos/current, lines 357-393 *)

\* lines 359-371: the cycle date, then the window check
CancelBegin(s, u, max) ==
    /\ CanReceive(s, max)
    /\ started' = started + 1
    /\ \E t \in Later(now) :
        LET r == [Received("cancel", u, NoBody) EXCEPT
                     !.cycleDate = getCycleDate(getArgTime(now, hostOff), hostOff),
                     !.checkedAt = t]
            timeCheck == checkTimeRestriction(u, t, hostOff)
        IN  /\ now' = t
            /\ IF ~timeCheck.allowed
               THEN /\ answer' = Answer(r, 403, OutOfHours)
                    /\ UNCHANGED req
               ELSE /\ req' = [req EXCEPT ![s] = [r EXCEPT !.pc = "delete"]]
                    /\ UNCHANGED answer
    /\ UNCHANGED <<hostOff, pedidos, nextId, probe, lastWrite>>

\* a variant that deletes nothing
Delete_Nothing(e, f) == pedidos

\* .delete().eq('email', e).eq('fecha', f)
Delete(e, f) == pedidos \ Match(e, f)

\* lines 373-384: the store executes the delete
CancelDelete(s) ==
    /\ req[s].op = "cancel" /\ req[s].pc = "delete"
    /\ pedidos' = Delete(req[s].user, req[s].cycleDate)
    /\ answer' = Answer(req[s], 200, Text(<<"Pedido cancelado correctamente">>))
    /\ lastWrite' = Logged(req[s])
    /\ req' = [req EXCEPT ![s] = Idle]
    /\ UNCHANGED <<now, hostOff, nextId, started, probe>>

-----------------------------------------------------------------------------
(* GET /api/pedidos/current, lines 264-302 *)

CurrentBegin(s, u, max) ==
    /\ CanReceive(s, max)
    /\ started' = started + 1
    /\ req' = [req EXCEPT ![s] =
            [Received("current", u, NoBody) EXCEPT
                !.pc = "lookup",
                !.cycleDate = getCycleDate(getArgTime(now, hostOff), hostOff)]]
    /\ UNCHANGED <<now, hostOff, pedidos, nextId, answer, probe, lastWrite>>

\* lines 271-294: no row (PGRST116) is answered with order: null
CurrentLookup(s) ==
    /\ req[s].op = "current" /\ req[s].pc = "lookup"
    /\ LET order == Single(Match(req[s].user, req[s].cycleDate))
       IN  IF order # {}
           THEN /\ req' = [req EXCEPT ![s].existing = order, ![s].pc = "number"]
                /\ UNCHANGED answer
           ELSE /\ answer' = Answer(req[s], 200, NoMessage)
                /\ req' = [req EXCEPT ![s] = Idle]
    /\ UNCHANGED <<now, hostOff, pedidos, nextId, started, probe, lastWrite>>

\* lines 282-291: the order found, with the numbers counted in the cycle
\* numberedFor
currentAnswer(r, numbers, numberedFor) ==
    [Answer(r, 200, NoMessage) EXCEPT
        !.order = r.existing, !.dishNumbers = numbers, !.numberedFor = numberedFor]

\* line 281 and the answer of lines 282-291
CurrentNumber(s) ==
    /\ req[s].op = "current" /\ req[s].pc = "number"
    /\ LET cycleDate == getCycleDate(getArgTime(now, hostOff), hostOff)
       IN  \E q \in Ordered(cycleDate) :
               answer' = currentAnswer(req[s], dishNumbers(q, req[s].user), cycleDate)
    /\ req' = [req EXCEPT ![s] = Idle]
    /\ UNCHANGED <<now, hostOff, pedidos, nextId, started, probe, lastWrite>>

-----------------------------------------------------------------------------
(* GET /api/stats, lines 305-354 *)

Slot(pedido, k) == <<pedido.plato1, pedido.plato2, pedido.plato3>>[k]

\* a variant that tallies every slot that is not the empty string
stats_CountsBlanks(q) ==
    [totalOrders |-> Len(q),
     menuStats |->
        LET counted == {ik \in (1..Len(q)) \X (1..3) : Slot(q[ik[1]], ik[2]) # <<>>}
        IN  [plato \in {Slot(q[ik[1]], ik[2]) : ik \in counted} |->
                Cardinality({ik \in counted : Slot(q[ik[1]], ik[2]) = plato})],
     peopleList |->
        [i \in 1..Len(q) |->
            [nombre |-> q[i].nombre, usuario |-> q[i].usuario,
             timestamp |-> q[i].timestamp, plato1 |-> q[i].plato1,
             plato2 |-> q[i].plato2, plato3 |-> q[i].plato3]]]

\* lines 319-342
stats(q) ==
    [totalOrders |-> Len(q),
     menuStats |->
        LET counted == {ik \in (1..Len(q)) \X (1..3) : NonEmptyDish(Slot(q[ik[1]], ik[2]))}
        IN  [plato \in {Slot(q[ik[1]], ik[2]) : ik \in counted} |->
                Cardinality({ik \in counted : Slot(q[ik[1]], ik[2]) = plato})],
     peopleList |->
        [i \in 1..Len(q) |->
            [nombre |-> q[i].nombre, usuario |-> q[i].usuario,
             timestamp |-> q[i].timestamp, plato1 |-> q[i].plato1,
             plato2 |-> q[i].plato2, plato3 |-> q[i].plato3]]]

StatsBegin(s, u, max) ==
    /\ CanReceive(s, max)
    /\ started' = started + 1
    /\ req' = [req EXCEPT ![s] =
            [Received("stats", u, NoBody) EXCEPT
                !.pc = "query",
                !.cycleDate = getCycleDate(getArgTime(now, hostOff), hostOff)]]
    /\ UNCHANGED <<now, hostOff, pedidos, nextId, answer, probe, lastWrite>>

StatsQuery(s) ==
    /\ req[s].op = "stats" /\ req[s].pc = "query"
    /\ \E q \in Ordered(req[s].cycleDate) :
           answer' = [Answer(req[s], 200, NoMessage) EXCEPT !.stats = stats(q)]
    /\ req' = [req EXCEPT ![s] = Idle]
    /\ UNCHANGED <<now, hostOff, pedidos, nextId, started, probe, lastWrite>>

-----------------------------------------------------------------------------
(* Store calls that come back with an error: the store has rejected the     *)
(* call and the table is as it was                                          *)

Failed(r) == [r EXCEPT !.storeError = TRUE]

\* lines 197-202: only data is read from the lookup's result, and it is null
SubmitLookupFails(s) ==
    /\ req[s].op = "submit" /\ req[s].pc = "lookup"
    /\ req' = [req EXCEPT ![s] = [Failed(req[s]) EXCEPT !.existing = {}, !.pc = "build"]]
    /\ UNCHANGED <<now, hostOff, pedidos, nextId, answer, started, probe, lastWrite>>

\* lines 222 and 229: the error is thrown, and answered by lines 254-260
SubmitWriteFails(s) ==
    /\ req[s].op = "submit" /\ req[s].pc = "write"
    /\ answer' = Answer(Failed(req[s]), 500,
                        Text(<<"Error al procesar el pedido: ", StoreMessage>>))
    /\ req' = [req EXCEPT ![s] = Idle]
    /\ UNCHANGED <<now, hostOff, pedidos, nextId, started, probe, lastWrite>>

\* lines 124 and 149-152: calculateDishNumbers catches the error of its query
\* and returns []
SubmitNumberFails(s) ==
    /\ req[s].op = "submit" /\ req[s].pc = "number"
    /\ answer' = submitAnswer(Failed(req[s]), <<>>,
                              getCycleDate(getArgTime(now, hostOff), hostOff))
    /\ lastWrite' = Logged(req[s])
    /\ req' = [req EXCEPT ![s] = Idle]
    /\ UNCHANGED <<now, hostOff, pedidos, nextId, started, probe>>

\* line 379, answered by lines 386-392
CancelDeleteFails(s) ==
    /\ req[s].op = "cancel" /\ req[s].pc = "delete"
    /\ answer' = Answer(Failed(req[s]), 500,
                        Text(<<"Error al cancelar el pedido: ", StoreMessage>>))
    /\ req' = [req EXCEPT ![s] = Idle]
    /\ UNCHANGED <<now, hostOff, pedidos, nextId, started, probe, lastWrite>>

\* line 278: an error other than PGRST116, answered by lines 295-301
CurrentLookupFails(s) ==
    /\ req[s].op = "current" /\ req[s].pc = "lookup"
    /\ answer' = Answer(Failed(req[s]), 500,
                        Text(<<"Error al obtener pedido: ", StoreMessage>>))
    /\ req' = [req EXCEPT ![s] = Idle]
    /\ UNCHANGED <<now, hostOff, pedidos, nextId, started, probe, lastWrite>>

\* line 281 with the query of calculateDishNumbers failing: it returns []
CurrentNumberFails(s) ==
    /\ req[s].op = "current" /\ req[s].pc = "number"
    /\ answer' = currentAnswer(Failed(req[s]), <<>>,
                               getCycleDate(getArgTime(now, hostOff), hostOff))
    /\ req' = [req EXCEPT ![s] = Idle]
    /\ UNCHANGED <<now, hostOff, pedidos, nextId, started, probe, lastWrite>>

\* a variant that answers the failed query as a success
statsFailure_Success(r) == Answer(Failed(r), 200, NoMessage)

\* lines 346-353
statsFailure(r) ==
    [Answer(Failed(r), 500, Text(<<"Error al obtener estadisticas: ", StoreMessage>>))
        EXCEPT !.stats = [totalOrders |-> 0, menuStats |-> <<>>, peopleList |-> <<>>]]

\* line 317, answered by lines 346-353
StatsQueryFails(s) ==
    /\ req[s].op = "stats" /\ req[s].pc = "query"
    /\ answer' = statsFailure(req[s])
    /\ req' = [req EXCEPT ![s] = Idle]
    /\ UNCHANGED <<now, hostOff, pedidos, nextId, started, probe, lastWrite>>

-----------------------------------------------------------------------------
(* The specifications *)

\* at most max requests are received in one behaviour
Receive(s, max) ==
    \/ \E u \in Users, b \in Bodies : SubmitBegin(s, u, b, max)
    \/ \E u \in Users : CancelBegin(s, u, max)
    \/ \E u \in Users : CurrentBegin(s, u, max)
    \/ \E u \in Users : StatsBegin(s, u, max)

Step(s) ==
    \/ SubmitLookup(s)
    \/ SubmitBuild(s)
    \/ SubmitWrite(s)
    \/ SubmitNumber(s)
    \/ CancelDelete(s)
    \/ CurrentLookup(s)
    \/ CurrentNumber(s)
    \/ StatsQuery(s)

\* requests are handled concurrently, their store calls interleaved
Next ==
    \/ Tick
    \/ \E s \in Slots : Receive(s, MaxConc)
    \/ \E s \in Slots : Step(s)

Spec == Init /\ [][Next]_vars

AllIdle == \A s \in Slots : req[s].op = "idle"

\* each request runs to completion before the next one starts
NextSeq ==
    \/ Tick
    \/ Receive(1, MaxReq)
    \/ Step(1)

SpecSeq == Init /\ [][NextSeq]_vars

StoreFails(s) ==
    \/ SubmitLookupFails(s)
    \/ SubmitWriteFails(s)
    \/ SubmitNumberFails(s)
    \/ CancelDeleteFails(s)
    \/ CurrentLookupFails(s)
    \/ CurrentNumberFails(s)
    \/ StatsQueryFails(s)

\* requests handled one after the other, each store call answered or failing
NextFail ==
    \/ Tick
    \/ Receive(1, MaxFail)
    \/ Step(1)
    \/ StoreFails(1)

SpecFail == Init /\ [][NextFail]_vars

\* the writing requests on their own
ReceiveWrite(s, max) ==
    \/ \E u \in Users, b \in Bodies : SubmitBegin(s, u, b, max)
    \/ \E u \in Users : CancelBegin(s, u, max)

StepWrite(s) ==
    \/ SubmitLookup(s)
    \/ SubmitBuild(s)
    \/ SubmitWrite(s)
    \/ SubmitNumber(s)
    \/ CancelDelete(s)

\* the first request of user u as it is when its write is done: a submit of
\* one dish, received and handled at the clock's first instant
FirstSubmit(u) ==
    [Idle EXCEPT !.op = "submit", !.pc = "number", !.n = 1, !.user = u,
                 !.body = Body(Str("A"), Str("T"), NoStr, NoStr),
                 !.checkedAt = Min(Instants), !.receivedAt = Min(Instants),
                 !.cycleDate = getCycleDate(getArgTime(Min(Instants), hostOff), hostOff),
                 !.timestamp = toISOString(getArgTime(Min(Instants), hostOff)),
                 !.action = "created"]

\* the server after it has answered a first submit
InitStored ==
    /\ now = Min(Instants)
    /\ hostOff \in HostOffsets
    /\ req = [s \in Slots |-> Idle]
    /\ started = 1
    /\ nextId = 2
    /\ probe = [fn |-> "none"]
    /\ \E u \in Users :
        LET r == FirstSubmit(u)
        IN  /\ pedidos = {Row(1, orderData(r))}
            /\ answer = submitAnswer(r, <<1>>, r.cycleDate)
            /\ lastWrite = {Write(r)}

\* submits and cancels are handled concurrently, their store calls interleaved
NextRace ==
    \/ Tick
    \/ \E s \in Slots : ReceiveWrite(s, MaxRace)
    \/ \E s \in Slots : StepWrite(s)

SpecRace == InitStored /\ [][NextRace]_vars

-----------------------------------------------------------------------------
(* The pure functions on their own: Init draws the inputs, one step applies *)
(* the function                                                             *)

Pending == "pending"

InitServer ==
    /\ now = Min(Instants)
    /\ hostOff = 0
    /\ pedidos = {}
    /\ nextId = 1
    /\ req = [s \in Slots |-> Idle]
    /\ answer = NoAnswer
    /\ started = 0
    /\ lastWrite = {}

\* host zones: UTC, Buenos Aires itself, and one east of Greenwich
ProbeOffsets == {0, BA_OFFSET, 120}

InitCycle ==
    /\ InitServer
    /\ probe \in [fn : {"getCycleDate"}, day : 1..MaxProbeDay, hour : 0..23,
                   minute : {0, 59}, off : ProbeOffsets, out : {NoDate},
                   state : {Pending}]

\* getCycleDate(getArgTime()) at the probe's Buenos Aires reading
ProbeCycleDate ==
    /\ probe.fn = "getCycleDate" /\ probe.state = Pending
    /\ probe' = [probe EXCEPT
                    !.out = getCycleDate(getArgTime(InstantOf(probe.day, probe.hour,
                                                              probe.minute),
                                                    probe.off), probe.off),
                    !.state = "done"]
    /\ UNCHANGED <<now, hostOff, pedidos, nextId, req, answer, started, lastWrite>>

SpecCycle == InitCycle /\ [][ProbeCycleDate]_vars

Denied == [allowed |-> FALSE, isAdmin |-> FALSE]

InitWindow ==
    /\ InitServer
    /\ probe \in [fn : {"checkTimeRestriction"}, user : ADMIN_EMAILS \cup Users,
                   day : 1..MaxWindowDay, hour : 0..23, minute : {0, 15, 16, 59},
                   off : ProbeOffsets, out : {Denied}, out2 : {Denied},
                   state : {Pending}]

\* both definitions of checkTimeRestriction at the probe's Buenos Aires reading
ProbeWindow ==
    /\ probe.fn = "checkTimeRestriction" /\ probe.state = Pending
    /\ LET t == InstantOf(probe.day, probe.hour, probe.minute)
       IN  probe' = [probe EXCEPT
                        !.out = checkTimeRestriction(probe.user, t, probe.off),
                        !.out2 = checkTimeRestriction2(probe.user, t, probe.off),
                        !.state = "done"]
    /\ UNCHANGED <<now, hostOff, pedidos, nextId, req, answer, started, lastWrite>>

SpecWindow == InitWindow /\ [][ProbeWindow]_vars

\* the dish slots of an examined record: filled, empty or blank
ProbeSlots ==
    {<<p1, p2, p3>> : p1 \in {Str("T"), Str(Blank)}, p2 \in {NoStr, Str("E")},
                      p3 \in {NoStr, Str("T")}}

\* the i-th record of an examined cycle; equal timestamps come in pairs
ProbeRow(i, slots) ==
    Row(i, [nombre |-> Str("A"), email |-> ProbeUsers[i],
            usuario |-> usuario(ProbeUsers[i]),
            plato1 |-> slots[1], plato2 |-> slots[2], plato3 |-> slots[3],
            fecha |-> YMD(1), timestamp |-> (i + 1) \div 2])

InitNumber ==
    /\ InitServer
    /\ \E k \in 0..MaxRecs : \E ss \in [1..k -> ProbeSlots] :
           probe = [fn |-> "calculateDishNumbers",
                    rows |-> [i \in 1..k |-> ProbeRow(i, ss[i])], out |-> <<>>,
                    state |-> Pending]

\* lines 126-148 on the probe's rows, for each of their identities
ProbeNumber ==
    /\ probe.fn = "calculateDishNumbers" /\ probe.state = Pending
    /\ probe' = [probe EXCEPT
                    !.out = [i \in 1..Len(probe.rows) |->
                                dishNumbers(probe.rows, probe.rows[i].email)],
                    !.state = "done"]
    /\ UNCHANGED <<now, hostOff, pedidos, nextId, req, answer, started, lastWrite>>

SpecNumber == InitNumber /\ [][ProbeNumber]_vars

\* a table examined on its own: up to MaxRecs records of one cycle, with or
\* without a record of the cycle after it
InitStats ==
    /\ now = Min(Instants)
    /\ hostOff = 0
    /\ req = [s \in Slots |-> Idle]
    /\ answer = NoAnswer
    /\ started = 0
    /\ lastWrite = {}
    /\ \E k \in 0..MaxRecs : \E ss \in [1..k -> ProbeSlots] :
        \E others \in {{}, {[ProbeRow(k + 1, <<Str("E"), NoStr, NoStr>>)
                                EXCEPT !.fecha = YMD(2)]}} :
            /\ pedidos = {ProbeRow(i, ss[i]) : i \in 1..k} \cup others
            /\ nextId = k + 1 + Cardinality(others)
    /\ probe = [fn |-> "stats", cycleDate |-> YMD(1), out |-> NoStats, numbers |-> <<>>,
                 state |-> Pending]

\* lines 311-342 on the table, and lines 118-148 for each identity
ProbeStats ==
    /\ probe.fn = "stats" /\ probe.state = Pending
    /\ \E q, q2 \in Ordered(probe.cycleDate) :
           probe' = [probe EXCEPT
                        !.out = stats(q),
                        !.numbers = [i \in 1..Len(ProbeUsers) |->
                                        dishNumbers(q2, ProbeUsers[i])],
                        !.state = "done"]
    /\ UNCHANGED <<now, hostOff, pedidos, nextId, req, answer, started, lastWrite>>

SpecStats == InitStats /\ [][ProbeStats]_vars

\* the access window examined on its own, or the server handling requests
InitAccess == InitWindow \/ Init

NextAccess ==
    \/ ProbeWindow
    \/ probe.fn = "none" /\ Next

SpecAccess == InitAccess /\ [][NextAccess]_vars

-----------------------------------------------------------------------------
(* The claims *)

Range(q) == {q[i] : i \in DOMAIN q}

IsPair(S, u, f) == {r \in S : r.email = u /\ r.fecha = f}

\* C1: when each request runs to completion before the next one starts, the
\* table never holds two different rows with the same email and fecha.
C1_OneOrderPerIdentityAndCycle ==
    \A r1, r2 \in pedidos : (r1.email = r2.email /\ r1.fecha = r2.fecha) => r1 = r2

\* C1's case: an order was updated while the table holds orders of two cycles
C1_Witness ==
    /\ answer.op = "submit" /\ answer.action = "updated"
    /\ Cardinality(pedidos) = 2

\* C2: with the store calls of concurrent submits interleaved, no identity
\* ever has more than one row in a cycle.
C2_NoDuplicateUnderRace ==
    \A u \in Users : \A r \in pedidos : Cardinality(IsPair(pedidos, u, r.fecha)) <= 1

\* a slot that holds a dish: some character of it is not a blank
IsDish(slot) == \E i \in 1..Len(slot) : slot[i] # Blank

\* the number of slots of a row that hold a dish
DishCount(row) == Cardinality({k \in 1..3 : IsDish(Slot(row, k))})

RECURSIVE DishesBefore(_, _)
\* c1 + ... + c(i-1)
DishesBefore(rows, i) ==
    IF i <= 1 THEN 0 ELSE DishesBefore(rows, i - 1) + DishCount(rows[i - 1])

\* C3: for records of one cycle in ascending submittedAt order with c1..ck
\* dishes, the i-th record's identity gets exactly the numbers
\* (c1+...+c(i-1))+1 .. c1+...+ci, ascending.
C3_NumbersArePrefixSums ==
    (probe.fn = "calculateDishNumbers" /\ probe.state = "done") =>
        \A i \in 1..Len(probe.rows) :
            probe.out[i] =
                [k \in 1..DishCount(probe.rows[i]) |-> DishesBefore(probe.rows, i) + k]

\* C3's case: dish counts 2, 1, 3 numbered {1,2}, {3}, {4,5,6}
C3_Witness ==
    /\ probe.fn = "calculateDishNumbers" /\ probe.state = "done"
    /\ Len(probe.rows) = 3
    /\ <<DishCount(probe.rows[1]), DishCount(probe.rows[2]), DishCount(probe.rows[3])>>
           = <<2, 1, 3>>
    /\ probe.out = <<(<<1, 2>>), (<<3>>), (<<4, 5, 6>>)>>

\* C5: for every Buenos Aires local time and whatever the host's UTC offset,
\* getCycleDate gives the date of the local day plus one when the local hour
\* is >= 14, and the date of the local day itself when it is < 14.
C5_CycleDateFollowsLocalDay ==
    (probe.fn = "getCycleDate" /\ probe.state = "done") =>
        probe.out = (IF probe.hour >= 14 THEN YMD(probe.day + 1) ELSE YMD(probe.day))

\* the access window as the specification states it, for a Buenos Aires
\* reading of weekday (0 = Sunday), hour and minute
WindowRule(weekday, hour, minute) ==
    /\ weekday \in 1..5
    /\ hour >= 14 \/ hour < 10 \/ (hour = 10 /\ minute <= 15)

\* C6: for every non-administrator and every local (weekday, hour, minute)
\* checkTimeRestriction returns allowed = weekday is Monday..Friday and
\* (hour >= 14 or hour < 10 or (hour = 10 and minute <= 15)), isAdmin = false;
\* stated of each of the file's definitions of checkTimeRestriction.
C6_NonAdminWindow ==
    (probe.fn = "checkTimeRestriction" /\ probe.state = "done"
        /\ probe.user \notin ADMIN_EMAILS) =>
        LET expected ==
                [allowed |-> WindowRule((Epoch.weekday + probe.day) % 7, probe.hour,
                                        probe.minute),
                 isAdmin |-> FALSE]
        IN  probe.out = expected /\ probe.out2 = expected

\* C7: for every administrator and every local time checkTimeRestriction
\* returns {allowed: true, isAdmin: true}, and no request of an administrator
\* is answered 403.
C7_AdminAlwaysAllowed ==
    /\ (probe.fn = "checkTimeRestriction" /\ probe.state = "done"
            /\ probe.user \in ADMIN_EMAILS) =>
            probe.out = [allowed |-> TRUE, isAdmin |-> TRUE]
    /\ answer.status = 403 => answer.user \notin ADMIN_EMAILS

\* C7's case: an administrator examined at 03:00 on a Saturday
C7_Witness ==
    /\ probe.fn = "checkTimeRestriction" /\ probe.state = "done"
    /\ probe.user \in ADMIN_EMAILS
    /\ (Epoch.weekday + probe.day) % 7 = 6 /\ probe.hour = 3
    /\ probe.out.allowed

\* the Buenos Aires reading of the clock at t falls in the access window
InWindow(t) ==
    LET wall == t + BA_OFFSET
    IN  WindowRule((Epoch.weekday + (wall \div MinPerDay)) % 7,
                   (wall \div 60) % 24, wall % 60)

\* the step gives an answer
Answered == answer'.n # answer.n

\* C8: every submit and cancel of a non-administrator checked outside the
\* access window is answered 403; a 403 is given in the step the request is
\* received, with no store call made and the table unchanged; only submit
\* and cancel are ever answered 403.
C8_DeniedWritesLeaveStore ==
    [][Answered =>
        /\ (answer'.op \in {"submit", "cancel"} /\ answer'.user \notin ADMIN_EMAILS
                /\ ~InWindow(answer'.checkedAt)) => answer'.status = 403
        /\ answer'.status = 403 =>
                /\ answer'.op \in {"submit", "cancel"}
                /\ pedidos' = pedidos
                /\ started' = started + 1 /\ answer'.n = started']_vars

\* C8's case: a cancel was denied while the table holds an order
C8_Witness ==
    /\ answer.op = "cancel" /\ answer.status = 403
    /\ \E r \in pedidos : r.email = answer.user

\* C4: after a submit is answered, every other identity whose record of the
\* cycle was submitted before this submit was received has all its dish
\* numbers below the numbers returned, whatever the earlier numbering was.
C4_ResubmitGoesToTheBack ==
    (answer.op = "submit" /\ answer.status = 200 /\ answer.n = started
        /\ (\A s \in Slots : req[s].op = "idle")
        /\ answer.numberedFor = answer.cycleDate) =>
        \A r \in pedidos :
            (r.fecha = answer.cycleDate /\ r.email # answer.user
                /\ r.timestamp < toISOString(getArgTime(answer.checkedAt, hostOff))) =>
                \A q \in Ordered(answer.cycleDate) :
                    \A i \in Range(dishNumbers(q, r.email)) :
                        \A j \in Range(answer.dishNumbers) : i < j

\* C4's case: A resubmitted two dishes after B's one dish: B has {1}, A {2,3}
C4_Witness ==
    /\ answer.op = "submit" /\ answer.status = 200 /\ answer.action = "updated"
    /\ answer.n = started /\ started = 3
    /\ answer.dishNumbers = <<2, 3>>
    /\ \E r \in pedidos :
        /\ r.fecha = answer.cycleDate /\ r.email # answer.user
        /\ \A q \in Ordered(answer.cycleDate) : dishNumbers(q, r.email) = <<1>>

\* C9: a submit that finds no record of its identity in the cycle is answered
\* 'created'; a submit that directly follows a successful submit of the same
\* identity, body and cycle is answered 'updated', and the table then holds
\* exactly one record of that identity and cycle, with the submitted name and
\* dishes and a timestamp read during the second call.
C9_SecondSubmitUpdates ==
    [][/\ \A s \in Slots :
            (req[s].pc = "write" /\ req'[s].pc = "number") =>
                (req'[s].action = "created" <=> Match(req[s].user, req[s].cycleDate) = {})
       /\ (Answered /\ answer'.n = answer.n + 1
            /\ answer.op = "submit" /\ answer.status = 200
            /\ answer'.op = "submit" /\ answer'.status = 200
            /\ answer'.user = answer.user /\ answer'.body = answer.body
            /\ answer'.cycleDate = answer.cycleDate) =>
            /\ answer'.action = "updated"
            /\ \E r \in pedidos' :
                /\ {x \in pedidos' : x.email = answer'.user /\ x.fecha = answer'.cycleDate} = {r}
                /\ r.nombre = trim(answer'.body.nombre)
                /\ <<r.plato1, r.plato2, r.plato3>>
                      = <<answer'.body.plato1, answer'.body.plato2, answer'.body.plato3>>
                /\ r.timestamp >= toISOString(getArgTime(answer'.checkedAt, hostOff))
                /\ r.timestamp <= toISOString(getArgTime(now', hostOff))]_vars

\* C9's case: the second request updated the order the first had created, at a
\* later reading of the clock
C9_Witness ==
    /\ answer.op = "submit" /\ answer.action = "updated" /\ answer.n = 2
    /\ nextId = 2
    /\ \E r \in pedidos :
        /\ r.id = 1 /\ r.email = answer.user /\ r.fecha = answer.cycleDate
        /\ r.timestamp = answer.timestamp
        /\ r.timestamp > toISOString(getArgTime(Min(Instants), hostOff))

\* C10: a cancel that passes the window check is answered 200 and removes
\* nothing but the identity's record of the cycle, so that it leaves the table
\* as it was when there is no such record, and a cancel that directly follows
\* a cancel of the same identity leaves the table as the first left it.
\* The last part fails on a host whose cycle date runs backwards between the
\* two calls (21:00 and the next morning on a host in UTC-3): the first cancel
\* finds nothing under the later date and the second removes the order.
C10_CancelIsIdempotent ==
    [][(Answered /\ answer'.op = "cancel") =>
        /\ answer'.status \in {200, 403}
        /\ answer'.status = 200 =>
            /\ Match(answer'.user, answer'.cycleDate) = {} => pedidos' = pedidos
            /\ pedidos' = {r \in pedidos :
                              ~(r.email = answer'.user /\ r.fecha = answer'.cycleDate)}
            /\ (answer.op = "cancel" /\ answer.status = 200
                    /\ answer.user = answer'.user /\ answer'.n = answer.n + 1) =>
                    pedidos' = pedidos]_vars

\* the row holds what request r submitted
Stores(row, r) ==
    /\ row.email = r.user /\ row.fecha = r.cycleDate
    /\ row.nombre = trim(r.body.nombre)
    /\ <<row.plato1, row.plato2, row.plato3>> = <<r.body.plato1, r.body.plato2, r.body.plato3>>
    /\ row.timestamp = r.timestamp

\* C11: whatever a submit is interleaved with, a submit that is answered with
\* a failure has written nothing, and the write of a submit that goes on to
\* answer 'created' or 'updated' leaves a record of the identity and cycle
\* that holds the submitted content.
C11_NoPartialSuccess ==
    [][/\ (Answered /\ answer'.op = "submit" /\ ~answer'.success) =>
            (pedidos' = pedidos /\ answer'.action = "")
       /\ \A s \in Slots :
            (req[s].op = "submit" /\ req[s].pc = "write" /\ req'[s].pc = "number") =>
                \E row \in pedidos' : Stores(row, req[s])]_vars

\* C12: whenever a store call made while handling a submit, a getCurrent or a
\* cancel fails, the request is answered at once, with a failure: no request
\* goes on after a failed store call, and none is answered with success.
C12_StoreFailureIsReported ==
    /\ \A s \in Slots : ~req[s].storeError
    /\ (answer.op \in {"submit", "current", "cancel"} /\ answer.storeError) =>
            (~answer.success /\ answer.status = 500)

\* C13: when the query of getStats fails, the request is answered in that
\* step with success: false, a message and the zero-valued aggregate, and the
\* table is left as it was.
C13_StatsFailureIsZeroAggregate ==
    [][\A s \in Slots :
        (req[s].op = "stats" /\ req'[s].op = "idle" /\ answer'.storeError) =>
            /\ Answered /\ answer'.op = "stats" /\ answer'.n = req[s].n
            /\ ~answer'.success /\ answer'.status = 500
            /\ answer'.message.text # <<>>
            /\ answer'.stats = [totalOrders |-> 0, menuStats |-> <<>>, peopleList |-> <<>>]
            /\ pedidos' = pedidos]_vars

\* C13's case: the query of getStats failed while the table holds an order
C13_Witness ==
    /\ answer.op = "stats" /\ answer.storeError
    /\ pedidos # {}

\* C14: every submit answered with success returns one dish number for each
\* slot of its body that holds a dish, in strictly ascending order, and never
\* an empty list (its first dish has passed the validation); on a cycle with
\* no other record (the first request of a behaviour) a submit of dishes
\* [d1, '', d3] is answered 'created' with the numbers [1, 2].
C14_OneNumberPerDish ==
    (answer.op = "submit" /\ answer.success) =>
        /\ Len(answer.dishNumbers) = DishCount(answer.body)
        /\ \A i, j \in DOMAIN answer.dishNumbers :
                i < j => answer.dishNumbers[i] < answer.dishNumbers[j]
        /\ answer.dishNumbers # <<>>
        /\ (DishCount(answer.body) = 2 /\ answer.body.plato2 = NoStr /\ answer.n = 1) =>
                (answer.action = "created" /\ answer.dishNumbers = <<1, 2>>)

\* the history's entry of user u in cycle f, if any
LastWriteOf(u, f) == {w \in lastWrite : w.user = u /\ w.cycleDate = f}

\* C15: when each request runs to completion before the next one starts, a
\* getCurrent answers "no order" exactly when its identity has no successful
\* submit in its cycle or the latest successful write of the identity in the
\* cycle was a cancel; otherwise it returns the name and the dishes of the
\* identity's latest successful submit in the cycle.
C15_Lifecycle ==
    (answer.op = "current" /\ answer.success) =>
        LET last == LastWriteOf(answer.user, answer.cycleDate)
        IN  /\ answer.order = {} <=> (\A w \in last : w.op = "cancel")
            /\ \A o \in answer.order : \E w \in last :
                    /\ w.op = "submit"
                    /\ o.nombre = trim(w.body.nombre)
                    /\ <<o.plato1, o.plato2, o.plato3>>
                          = <<w.body.plato1, w.body.plato2, w.body.plato3>>

\* C15's case: NoOrder -> Active -> NoOrder: after a submit and a cancel of
\* the identity in the cycle, getCurrent answers "no order"
C15_Witness ==
    /\ answer.op = "current" /\ answer.success /\ answer.order = {} /\ answer.n = 3
    /\ nextId = 2 /\ pedidos = {}
    /\ \E w \in LastWriteOf(answer.user, answer.cycleDate) : w.op = "cancel"

\* the cycle of the Buenos Aires reading of the clock at t: the date of the
\* local day, or of the day after it from 14:00 on
CycleOf(t) ==
    LET wall == t + BA_OFFSET
    IN  YMD((wall \div MinPerDay) + (IF (wall \div 60) % 24 >= 14 THEN 1 ELSE 0))

\* the clock reading at which a record was last written
WrittenAt(row) == (row.timestamp - BA_OFFSET) + hostOff

\* date a comes before date b
Before(a, b) ==
    \/ a[1] < b[1]
    \/ a[1] = b[1] /\ a[2] < b[2]
    \/ a[1] = b[1] /\ a[2] = b[2] /\ a[3] < b[3]

\* user u has records, all of them written in cycles before that of t
OnlyOlderOrders(u, t) ==
    /\ \E row \in pedidos : row.email = u
    /\ \A row \in pedidos : row.email = u => Before(CycleOf(WrittenAt(row)), CycleOf(t))

\* C16: a submit or cancel handled while the current cycle is c changes no
\* record whose fecha differs from c; and once the clock has passed the
\* cutover, an identity whose orders were all written in earlier cycles gets
\* "no order" from getCurrent and 'created' from its submit, with the old
\* records still in the table.
C16_RolloverSupersedes ==
    [][\A s \in Slots :
        LET r == req[s]
            whole == CycleOf(r.receivedAt) = CycleOf(now')
        IN  /\ (r.op \in {"submit", "cancel"} /\ whole) =>
                \A row \in (pedidos \ pedidos') \cup (pedidos' \ pedidos) :
                    row.fecha = CycleOf(now')
            /\ (r.op = "current" /\ req'[s].op = "idle" /\ whole
                    /\ OnlyOlderOrders(r.user, r.receivedAt)) =>
                    (answer'.n = r.n /\ answer'.order = {} /\ pedidos' = pedidos)
            /\ (r.op = "submit" /\ r.pc = "write" /\ req'[s].pc = "number" /\ whole
                    /\ OnlyOlderOrders(r.user, r.receivedAt)) =>
                    (req'[s].action = "created" /\ pedidos \subseteq pedidos')]_vars

\* C17: a submit uses one cycle throughout, whatever the clock does between
\* its readings: the cycle whose records are numbered for the answer is the
\* cycle under which the record was looked up and written, and that cycle is
\* the one of the instant for which the access window was decided.
C17_OneCyclePerSubmit ==
    (answer.op = "submit" /\ answer.success) =>
        /\ answer.numberedFor = answer.cycleDate
        /\ answer.cycleDate = getCycleDate(getArgTime(answer.checkedAt, hostOff), hostOff)

\* C18: a submit with an empty or whitespace-only name, or with an empty
\* first dish, is answered with a failure (400 when the window check let it
\* through) before any write; so every record of the table has a non-empty
\* name and a non-empty first dish, and every identity with a record has at
\* least one dish number in the record's cycle.
C18_RecordsAreValid ==
    /\ (answer.op = "submit"
            /\ (trim(answer.body.nombre) = NoStr \/ answer.body.plato1 = NoStr)) =>
            (answer.status \in {400, 403} /\ ~answer.success /\ answer.action = "")
    /\ \A row \in pedidos :
            /\ row.nombre # NoStr /\ row.plato1 # NoStr
            /\ \A q \in Ordered(row.fecha) : dishNumbers(q, row.email) # <<>>

RECURSIVE Total(_)
\* the sum of the counts of a tally
Total(tally) ==
    IF DOMAIN tally = {} THEN 0
    ELSE LET k == CHOOSE k \in DOMAIN tally : TRUE
         IN  tally[k] + Total([x \in DOMAIN tally \ {k} |-> tally[x]])

\* the number of dishes held by a set of rows
RECURSIVE DishTotal(_)
DishTotal(rows) ==
    IF rows = {} THEN 0
    ELSE LET row == CHOOSE row \in rows : TRUE
         IN  DishCount(row) + DishTotal(rows \ {row})

\* C19: for every table, getStats of a cycle returns totalOrders equal to the
\* number of the cycle's records, a peopleList with one entry per record by
\* ascending timestamp, and menuStats whose counts sum to the number N of
\* dishes of the cycle; the dish numbers of the cycle's identities are
\* pairwise disjoint and together are exactly 1..N.
C19_StatsAgreeWithNumbers ==
    (probe.fn = "stats" /\ probe.state = "done") =>
        LET rows == {row \in pedidos : row.fecha = probe.cycleDate}
            N == DishTotal(rows)
            people == probe.out.peopleList
        IN  /\ probe.out.totalOrders = Cardinality(rows)
            /\ Len(people) = Cardinality(rows)
            /\ \A row \in rows : \E i \in DOMAIN people :
                    people[i] = [nombre |-> row.nombre, usuario |-> row.usuario,
                                 timestamp |-> row.timestamp, plato1 |-> row.plato1,
                                 plato2 |-> row.plato2, plato3 |-> row.plato3]
            /\ \A i, j \in DOMAIN people :
                    i < j => people[i].timestamp <= people[j].timestamp
            /\ Total(probe.out.menuStats) = N
            /\ \A i, j \in DOMAIN probe.numbers :
                    i # j => Range(probe.numbers[i]) \cap Range(probe.numbers[j]) = {}
            /\ UNION {Range(probe.numbers[i]) : i \in DOMAIN probe.numbers} = 1..N

\* C19's case: three records of the cycle, one of them with a blank first
\* dish, five dishes in all, and a record of another cycle
C19_Witness ==
    /\ probe.fn = "stats" /\ probe.state = "done"
    /\ probe.out.totalOrders = 3 /\ Cardinality(pedidos) = 4
    /\ \E row \in pedidos : row.fecha = probe.cycleDate /\ row.plato1 = Str(Blank)
    /\ Total(probe.out.menuStats) = 5

\* the behaviour has requests other than the one in slot s, and every one of
\* them is a submit of another identity, in flight or answered
OnlySubmitsOfOthers(s) ==
    /\ answer.op = "submit" \/ \E z \in Slots \ {s} : req[z].op = "submit"
    /\ \A z \in Slots \ {s} :
            req[z].op = "idle" \/ (req[z].op = "submit" /\ req[z].user # req[s].user)
    /\ answer.op = "none" \/ (answer.op = "submit" /\ answer.user # req[s].user)
    /\ \A w \in lastWrite : w.op = "submit" /\ w.user # req[s].user

\* the row holds what the history's entry w says was submitted
Holds(row, w) ==
    /\ row.email = w.user /\ row.fecha = w.cycleDate
    /\ row.nombre = trim(w.body.nombre)
    /\ <<row.plato1, row.plato2, row.plato3>> = <<w.body.plato1, w.body.plato2, w.body.plato3>>

\* C20: when submits of different identities run concurrently, their store
\* calls interleaved in any order, the numbers a submit returns are the
\* positions of its dishes among the records its cycle has at the instant of
\* its numbering query, its own just-written record among them; and once all
\* requests are answered every submitted record is in the table.
C20_ConcurrentSubmitsAreNumbered ==
    [][\A s \in Slots :
        (req[s].op = "submit" /\ req[s].pc = "number" /\ req'[s].op = "idle"
            /\ OnlySubmitsOfOthers(s)) =>
            /\ answer'.n = req[s].n /\ answer'.success
            /\ \E row \in pedidos : Stores(row, req[s])
            /\ \E q \in Ordered(req[s].cycleDate) :
                    answer'.dishNumbers = dishNumbers(q, req[s].user)
            /\ Len(answer'.dishNumbers) = DishCount(req[s].body)
            /\ AllIdle' => \A w \in lastWrite' : \E row \in pedidos' : Holds(row, w)]_vars

\* C21: the access window and the cutover agree: every record of a
\* non-administrator was written at a Buenos Aires time inside the access
\* window, never in the gap from 10:16 to 13:59, and is stored under the cycle
\* of that time, so that the writes of one window (14:00 of day D-1 through
\* 10:15 of day D) all go to cycle D.
C21_WindowAndCutoverAgree ==
    \A row \in pedidos :
        row.email \notin ADMIN_EMAILS =>
            (InWindow(WrittenAt(row)) /\ row.fecha = CycleOf(WrittenAt(row)))

=============================================================================
